---------------------------- MODULE Spec2Model ----------------------------
(***************************************************************************)
(* Time-based cover controller of the Eltako custom component              *)
(* (custom_components/eltako/cover.py, switch_user.py, switch_listener.py).*)
(*                                                                         *)
(* The controller (EltakoCoverTimeBased) owns a travel estimator and an    *)
(* optional tilt estimator, a tick-loop subscription, the actuator         *)
(* (SwitchUser) and the external-event listener (SwitchListener).          *)
(*                                                                         *)
(* The estimator class (TravelCalculator) and the host base class          *)
(* (CoverEntity) are imported by cover.py and are not part of the source   *)
(* tree; the estimator is modelled from section 4.1 of the specification   *)
(* (TravelEstimator), the host's state property from the members cover.py  *)
(* reads (state, _cover_is_last_toggle_direction_open).                    *)
(*                                                                         *)
(* Time is discrete: one unit per AdvanceTime step.  An estimator keeps    *)
(* the time elapsed since its start_time instead of the wall clock; the    *)
(* elapsed time stops counting once the travel has reached where it ends,  *)
(* so every computed position is the one the wall clock gives.             *)
(* Positions are integer percentages (integer division rounds toward the   *)
(* start position).                                                        *)
(*                                                                         *)
(* Coroutines in flight are frames in the bag tasks.  A coroutine runs     *)
(* atomically from one suspension point to the next; its suspension points *)
(* are the three awaited service calls of a pulse (SwitchUser._push_switch)*)
(* Every step records in op which operation ran, its input, and the        *)
(* service call it issued on the actuator entity, if any.                  *)
(*                                                                         *)
(* The controller part is the class as cover.py defines it.  Loading the   *)
(* modules of the platforms is part of the setup (import_module): cover.py *)
(* and switch.py import the name from_switch_user_config from              *)
(* switch_user.py, which defines from_switch_config.                       *)
(***************************************************************************)
EXTENDS Integers, Sequences, FiniteSets, Bags, TLC

\* ------------------------------------------------------------------ bounds
\* Number of coroutines (user commands, auto-stop tasks) in flight at once.
MaxTasks == 2

\* Travel durations of the configuration, in time units.
travel_time_down == 2
travel_time_up == 1
tilt_time_down == 1
tilt_time_up == 1

\* Percentages the host passes in (targets, persisted positions).
Percentages == {0, 50, 100}

\* Tilt percentages the host passes in.
TiltPercentages == {0, 100}

\* The options configured for "up" and for "down" (the schema's defaults).
OptionsUp == {"BO"}

OptionsDown == {"BI"}

\* ------------------------------------------------------- estimator (4.1)
NoTarget == -1

Clamp(p) == IF p < 0 THEN 0 ELSE IF p > 100 THEN 100 ELSE p

\* The estimator after construction: idle at position 0.
TravelCalculator == [direction |-> "none", position |-> 0, elapsed |-> 0,
                     target_position |-> NoTarget]

is_traveling(c) == c.direction # "none"

\* Where the travel in progress ends: the explicit target, else the extreme.
Destination(c) ==
    IF c.target_position # NoTarget THEN c.target_position
    ELSE IF c.direction = "up" THEN 0 ELSE 100

\* current_position() without the clamp at the target: clamped to [0,100] only.
current_position_to_extreme(c, time_up, time_down) ==
    IF c.direction = "none" THEN c.position
    ELSE IF c.direction = "down"
         THEN Clamp(c.position + (100 * c.elapsed) \div time_down)
         ELSE Clamp(c.position - (100 * c.elapsed) \div time_up)

\* current_position(): start_position +/- 100 * elapsed / travel_time, clamped
\* to [0,100] and never past the target.  While traveling, the field position
\* holds start_position.
current_position(c, time_up, time_down) ==
    IF c.direction = "none" THEN c.position
    ELSE IF c.direction = "down"
         THEN LET raw == Clamp(c.position + (100 * c.elapsed) \div time_down)
              IN IF raw > Destination(c) THEN Destination(c) ELSE raw
         ELSE LET raw == Clamp(c.position - (100 * c.elapsed) \div time_up)
              IN IF raw < Destination(c) THEN Destination(c) ELSE raw

calc_position_reached(c, time_up, time_down) ==
    \/ c.direction = "none"
    \/ current_position(c, time_up, time_down) = Destination(c)

calc_stop(c, time_up, time_down) ==
    [direction |-> "none", position |-> current_position(c, time_up, time_down),
     elapsed |-> 0, target_position |-> NoTarget]

start_travel_up(c, time_up, time_down) ==
    [direction |-> "up", position |-> current_position(c, time_up, time_down),
     elapsed |-> 0, target_position |-> NoTarget]

start_travel_down(c, time_up, time_down) ==
    [direction |-> "down", position |-> current_position(c, time_up, time_down),
     elapsed |-> 0, target_position |-> NoTarget]

start_travel(c, target, time_up, time_down) ==
    LET cur == current_position(c, time_up, time_down)
    IN IF target = cur THEN c
       ELSE [direction |-> IF target < cur THEN "up" ELSE "down",
             position |-> cur, elapsed |-> 0, target_position |-> target]

\* set_position(p): defined while idle.  While traveling the result is
\* undefined: the call is ignored, or it seeds the estimator as if idle.
calc_set_position(c, p) ==
    LET seeded == [direction |-> "none", position |-> Clamp(p), elapsed |-> 0,
                   target_position |-> NoTarget]
    IN IF c.direction = "none" THEN {seeded} ELSE {c, seeded}

\* One time unit passes.  Elapsed time counts while it can still change the
\* computed position: until the travel has reached where it ends.
Elapse(c, time_up, time_down) ==
    IF calc_position_reached(c, time_up, time_down) THEN c
    ELSE [c EXCEPT !.elapsed = c.elapsed + 1]

\* ------------------------------------------------------------- the state
VARIABLES
    phase,                  \* "constructed" until async_added_to_hass has run
    config,                 \* the device configuration: tilt, actuator options
    switch_user_data,       \* SwitchUserData built from the configuration
    travel_calc,            \* the travel estimator
    tilt_calc,              \* the tilt estimator (used when config.has_tilt)
    unsubscribe_auto_updater, \* TRUE iff the controller holds a cancel handle
    subscriptions,          \* time-interval subscriptions the host holds
    cover_is_last_toggle_direction_open, \* the host's last toggle direction
    tasks,                  \* the coroutines in flight: a bag of frames
    op,                     \* the operation the last step ran
    service_raises,         \* TRUE iff a service call on the actuator may raise
    time_data,              \* estimator apart: its TimeData (up, down)
    calc,                   \* estimator apart: a TravelCalculator built from it
    platform,               \* setup apart: the platform being set up
    entity_registry,        \* setup apart: the entity ids the registry knows
    domain_config,          \* setup apart: the configured devices, in order
    devices,                \* setup apart: what devices_from_config returned
    switch_listener_data    \* setup apart: what from_switch_listener_config
                            \* returned when applied on its own

\* The state of the components that are also checked apart from a controller.
apart == <<time_data, calc, platform, entity_registry, domain_config,
          devices, switch_listener_data>>

\* What no step of the controller changes.
fixed == <<config, switch_user_data, service_raises, apart>>

vars == <<phase, fixed, travel_calc, tilt_calc, unsubscribe_auto_updater,
          subscriptions,
          cover_is_last_toggle_direction_open, tasks, op>>

\* A frame: the command being handled (cmd), whether the coroutine is a user's
\* stop, the tick loop's auto stop or another command (kind), the push in
\* progress and the number of its calls issued so far (pc).
Frame(kind, cmd, pc, push) ==
    [kind |-> kind, cmd |-> cmd, pc |-> pc, push |-> push]

InFlight == BagToSet(tasks)

HasFree == BagCardinality(tasks) < MaxTasks

Put(bag, f) == bag (+) SetToBag({f})

Take(bag, f) == bag (-) SetToBag({f})

\* The label of a step: the operation ("task" for a coroutine resumed), its
\* input, the option of the service call issued in the step (NoCall if none,
\* Raised if the call raised), and whether the step published the state
\* (async_write_ha_state) after the last change it made.
NoCall == "-"

Raised == "raise"

Op(name, arg, call) ==
    [name |-> name, arg |-> arg, call |-> call, written |-> FALSE]

OpWritten(name, arg, call, written) ==
    [name |-> name, arg |-> arg, call |-> call, written |-> written]

\* -------------------------------------------------------- configuration
\* A configuration mapping is a function on the keys it has; the mapping of
\* the devices is the sequence of its items, each with its key as device_id.
Has(mapping, key) == key \in DOMAIN mapping

\* dict.pop(key): the mapping without the key.
Pop(mapping, key) == [k \in DOMAIN mapping \ {key} |-> mapping[k]]

\* A function that can raise returns Raise(error) or Return(value).
Raise(error) == [raised |-> TRUE, error |-> error]

Return(value) == [raised |-> FALSE, value |-> value]

\* The same for a function that changes the mapping it is given: config is
\* the mapping as the call leaves it.
RaiseWith(error, mapping) ==
    [raised |-> TRUE, error |-> error, config |-> mapping]

ReturnWith(value, mapping) ==
    [raised |-> FALSE, value |-> value, config |-> mapping]

\* entity_registry.from_entity_id
from_entity_id(registry, entity_id) ==
    IF entity_id \notin registry THEN Raise("NoEntitySpecifiedError")
    ELSE Return(entity_id)

\* switch_user.from_switch_config: the arguments are evaluated in order, each
\* popping its key from switch_config; the identifier is popped before it is
\* looked up, the options after.  off_action is read from the option
\* configured for "down", on_action from the option configured for "up".
from_switch_config(registry, switch_config) ==
    IF ~Has(switch_config, "switch_id")
    THEN RaiseWith("KeyError", switch_config)
    ELSE LET entry == from_entity_id(registry, switch_config["switch_id"])
             popped_id == Pop(switch_config, "switch_id")
             popped_down == Pop(popped_id, "option_down")
             popped_up == Pop(popped_down, "option_up")
         IN IF entry.raised THEN RaiseWith(entry.error, popped_id)
            ELSE IF ~Has(popped_id, "option_down")
                 THEN RaiseWith("KeyError", popped_id)
            ELSE IF ~Has(popped_down, "option_up")
                 THEN RaiseWith("KeyError", popped_down)
            ELSE ReturnWith([entry |-> entry.value,
                             off_action |-> popped_id["option_down"],
                             on_action |-> popped_down["option_up"]],
                            popped_up)

\* ------------------------------------------------- controller, read side
\* None: a value that is absent.
Absent == -1

has_tilt_support == config.has_tilt

travel_position(tc) == current_position(tc, travel_time_up, travel_time_down)

tilt_position(tl) == current_position(tl, tilt_time_up, tilt_time_down)

\* current_cover_position without the conversion to the user-facing convention.
current_cover_position_internal(tc) == travel_position(tc)

\* current_cover_position: the user-facing percentage.
current_cover_position(tc) == 100 - travel_position(tc)

is_opening(tc, tl) ==
    \/ is_traveling(tc) /\ tc.direction = "up"
    \/ has_tilt_support /\ is_traveling(tl) /\ tl.direction = "up"

is_closing(tc, tl) ==
    \/ is_traveling(tc) /\ tc.direction = "down"
    \/ has_tilt_support /\ is_traveling(tl) /\ tl.direction = "down"

is_closed(tc) == travel_position(tc) = 100

\* The host's state property: opening is tested before closing.
state(tc, tl) ==
    IF is_opening(tc, tl) THEN "opening"
    ELSE IF is_closing(tc, tl) THEN "closing"
    ELSE IF is_closed(tc) THEN "closed" ELSE "open"

\* Reading the state records the direction of a movement in progress as the
\* last toggle direction; async_write_ha_state reads the state.
toggle_after_state(flag, tc, tl) ==
    IF is_opening(tc, tl) THEN TRUE
    ELSE IF is_closing(tc, tl) THEN FALSE ELSE flag

\* current_cover_tilt_position: the user-facing tilt percentage, or None
\* (Absent) without tilt support and when the tilt estimator's position is
\* falsy, that is 0.
current_cover_tilt_position(tl) ==
    IF has_tilt_support /\ tilt_position(tl) # 0
    THEN 100 - tilt_position(tl)
    ELSE Absent

\* supported_features: the set of features offered in the state (tc, tl).
supported_features(tc, tl) ==
    {"OPEN", "CLOSE", "STOP"}
    \cup (IF current_cover_position(tc) # Absent
          THEN {"SET_POSITION"} ELSE {})
    \cup (IF has_tilt_support
          THEN {"OPEN_TILT", "CLOSE_TILT", "STOP_TILT"}
               \cup (IF current_cover_tilt_position(tl) # Absent
                     THEN {"SET_TILT_POSITION"} ELSE {})
          ELSE {})

\* position_reached without the clause of the tilt estimator.
position_reached_travel_only(tc, tl) ==
    calc_position_reached(tc, travel_time_up, travel_time_down)

position_reached(tc, tl) ==
    /\ calc_position_reached(tc, travel_time_up, travel_time_down)
    /\ (~has_tilt_support
        \/ calc_position_reached(tl, tilt_time_up, tilt_time_down))

\* ------------------------------------------------ controller, write side
\* A controller state as the synchronous helpers pass it on.
Ctl(tc, tl, unsub, flag) ==
    [travel |-> tc, tilt |-> tl, unsub |-> unsub, flag |-> flag,
     subs |-> subscriptions]

\* start_auto_updater without the test of the handle: it subscribes again.
start_auto_updater_unguarded(c) ==
    [c EXCEPT !.unsub = TRUE, !.subs = c.subs + 1]

\* start_auto_updater: subscribe the tick callback unless a handle is held.
start_auto_updater(c) ==
    IF ~c.unsub THEN [c EXCEPT !.unsub = TRUE, !.subs = c.subs + 1] ELSE c

\* stop_auto_updater: cancel the subscription of the handle held, if any.
stop_auto_updater(c) ==
    IF c.unsub THEN [c EXCEPT !.unsub = FALSE, !.subs = c.subs - 1] ELSE c

\* The tilt estimator after _update_tilt_before_travel(command).
update_tilt_before_travel(tl, command) ==
    IF ~has_tilt_support THEN {tl}
    ELSE IF command = "open_cover" THEN calc_set_position(tl, 0)
    ELSE IF command = "close_cover" THEN calc_set_position(tl, 100)
    ELSE {tl}

\* _handle_stop without its tilt branch: a traveling tilt estimator goes on.
handle_stop_travel_only(c) ==
    LET travels == is_traveling(c.travel)
        c1 == IF travels THEN stop_auto_updater(c) ELSE c
    IN [c1 EXCEPT
          !.travel = IF travels
                     THEN calc_stop(@, travel_time_up, travel_time_down) ELSE @]

\* _handle_stop: stop the travel estimator if it travels, and the tick loop
\* with it; then the same for the tilt estimator.
handle_stop(c) ==
    LET travels == is_traveling(c.travel)
        tilts == has_tilt_support /\ is_traveling(c.tilt)
        c1 == IF travels THEN stop_auto_updater(c) ELSE c
        c2 == IF tilts THEN stop_auto_updater(c1) ELSE c1
    IN [c2 EXCEPT
          !.travel = IF travels
                     THEN calc_stop(@, travel_time_up, travel_time_down) ELSE @,
          !.tilt = IF tilts
                   THEN calc_stop(@, tilt_time_up, tilt_time_down) ELSE @]

\* on_switch_on, from controller state c: the set of resulting states.
on_switch_on(c) ==
    LET s == state(c.travel, c.tilt)
        c0 == [c EXCEPT !.flag = toggle_after_state(c.flag, c.travel, c.tilt)]
    IN IF s = "closing" THEN {handle_stop(c0)}
       ELSE IF s \in {"opening", "open"}
       THEN {[start_auto_updater(c0) EXCEPT
              !.travel = start_travel_down(c.travel, travel_time_up,
                                           travel_time_down),
              !.tilt = tl] :
                 tl \in update_tilt_before_travel(c.tilt, "close_cover")}
       ELSE {c0}

\* on_switch_off, from controller state c: the set of resulting states.
on_switch_off(c) ==
    LET s == state(c.travel, c.tilt)
        c0 == [c EXCEPT !.flag = toggle_after_state(c.flag, c.travel, c.tilt)]
    IN IF s = "opening" THEN {handle_stop(c0)}
       ELSE IF \/ s \in {"closing", "closed"}
               \/ s = "open" /\ current_cover_position(c.travel) < 100
       THEN {[start_auto_updater(c0) EXCEPT
              !.travel = start_travel_up(c.travel, travel_time_up,
                                         travel_time_down),
              !.tilt = tl] :
                 tl \in update_tilt_before_travel(c.tilt, "open_cover")}
       ELSE {c0}

\* A pulse that asserts nothing: the neutral option in place of the action.
push_option_neutral(push) == "None"

\* push_on asserts on_action, push_off asserts off_action.
push_option(push) ==
    IF push = "on" THEN switch_user_data.on_action
    ELSE switch_user_data.off_action

\* _async_handle_command up to its first suspension: the frame of a coroutine
\* that has issued the first (neutral) call of its pulse.  close pushes on,
\* open pushes off, stop pushes on unless the last toggle direction is open.
handle_command(kind, command, flag) ==
    Frame(kind, command, 1,
          IF command = "close_cover" THEN "on"
          ELSE IF command = "open_cover" THEN "off"
          ELSE IF ~flag THEN "on" ELSE "off")

\* ----------------------------------------------------------------- Init
Configs == [has_tilt : BOOLEAN, option_up : OptionsUp,
            option_down : OptionsDown]

\* The controller after construction.
CoverInit ==
    /\ phase = "constructed"
    /\ config \in Configs
    /\ switch_user_data =
           from_switch_config({"select.s1"},
                              [switch_id |-> "select.s1",
                               option_up |-> config.option_up,
                               option_down |-> config.option_down]).value
    /\ travel_calc = TravelCalculator
    /\ tilt_calc = TravelCalculator
    /\ unsubscribe_auto_updater = FALSE
    /\ subscriptions = 0
    /\ cover_is_last_toggle_direction_open = TRUE
    /\ tasks = EmptyBag
    /\ op = Op("init", 0, NoCall)

\* The estimator apart, not in use.
CalcIdle ==
    /\ time_data = [up |-> travel_time_up, down |-> travel_time_down]
    /\ calc = TravelCalculator

\* No platform is being set up.
NotBuilt == [built |-> FALSE]

SetupIdle ==
    /\ platform = "cover"
    /\ entity_registry = {}
    /\ domain_config = << >>
    /\ devices = NotBuilt
    /\ switch_listener_data = NotBuilt

\* A controller whose actuator accepts every service call.
Init ==
    /\ CoverInit
    /\ service_raises = FALSE
    /\ CalcIdle
    /\ SetupIdle

\* ------------------------------------------------------------ activation
OldStates == {[present |-> FALSE, position |-> Absent, tilt |-> Absent]}
             \cup [present : {TRUE}, position : Percentages \cup {Absent},
                   tilt : TiltPercentages \cup {Absent}]

\* async_added_to_hass: seed the estimators from the persisted state, then
\* subscribe the listener.  The tilt is restored inside the position branch.
AddedToHass(old_state) ==
    /\ phase = "constructed"
    /\ phase' = "active"
    /\ op' = Op("added_to_hass",
                IF old_state.present THEN old_state.position ELSE Absent,
                NoCall)
    /\ IF old_state.present /\ old_state.position # Absent
       THEN /\ travel_calc' \in calc_set_position(travel_calc,
                                                  100 - old_state.position)
            /\ IF has_tilt_support /\ old_state.tilt # Absent
               THEN tilt_calc' \in calc_set_position(tilt_calc,
                                                     100 - old_state.tilt)
               ELSE UNCHANGED tilt_calc
       ELSE UNCHANGED <<travel_calc, tilt_calc>>
    /\ UNCHANGED <<fixed, unsubscribe_auto_updater, subscriptions,
                   cover_is_last_toggle_direction_open, tasks>>

\* -------------------------------------------------------------- commands
\* The call of start_auto_updater in a command.
StartAutoUpdater ==
    LET r == start_auto_updater(Ctl(travel_calc, tilt_calc,
                                    unsubscribe_auto_updater,
                                    cover_is_last_toggle_direction_open))
    IN /\ unsubscribe_auto_updater' = r.unsub
       /\ subscriptions' = r.subs

\* The coroutine of a command joins the coroutines in flight, its first
\* (neutral) call issued.  If the call raises, the exception ends the command.
Start(name, arg, kind, command) ==
    \/ /\ tasks' = Put(tasks,
                        handle_command(kind, command,
                                       cover_is_last_toggle_direction_open))
       /\ op' = Op(name, arg, "None")
    \/ /\ service_raises
       /\ op' = Op(name, arg, Raised)
       /\ UNCHANGED tasks

\* A command that returns without doing anything.
Skip(name, arg) ==
    /\ op' = Op(name, arg, NoCall)
    /\ UNCHANGED tasks

\* async_open_cover without the test of the current position.
OpenCover_unguarded ==
    /\ phase = "active" /\ HasFree
    /\ travel_calc' = start_travel_up(travel_calc, travel_time_up,
                                      travel_time_down)
    /\ StartAutoUpdater
    /\ tilt_calc' \in update_tilt_before_travel(tilt_calc, "open_cover")
    /\ Start("open_cover", 0, "move", "open_cover")
    /\ UNCHANGED <<phase, fixed,
                   cover_is_last_toggle_direction_open>>

\* async_open_cover
OpenCover ==
    /\ phase = "active" /\ HasFree
    /\ IF travel_position(travel_calc) > 0
       THEN /\ travel_calc' = start_travel_up(travel_calc, travel_time_up,
                                              travel_time_down)
            /\ StartAutoUpdater
            /\ tilt_calc' \in update_tilt_before_travel(tilt_calc, "open_cover")
            /\ Start("open_cover", 0, "move", "open_cover")
       ELSE /\ Skip("open_cover", 0)
            /\ UNCHANGED <<travel_calc, tilt_calc, unsubscribe_auto_updater,
                           subscriptions>>
    /\ UNCHANGED <<phase, fixed,
                   cover_is_last_toggle_direction_open>>

\* async_close_cover
CloseCover ==
    /\ phase = "active" /\ HasFree
    /\ IF travel_position(travel_calc) < 100
       THEN /\ travel_calc' = start_travel_down(travel_calc, travel_time_up,
                                                travel_time_down)
            /\ StartAutoUpdater
            /\ tilt_calc' \in update_tilt_before_travel(tilt_calc, "close_cover")
            /\ Start("close_cover", 0, "move", "close_cover")
       ELSE /\ Skip("close_cover", 0)
            /\ UNCHANGED <<travel_calc, tilt_calc, unsubscribe_auto_updater,
                           subscriptions>>
    /\ UNCHANGED <<phase, fixed,
                   cover_is_last_toggle_direction_open>>

\* async_open_cover_tilt
OpenCoverTilt ==
    /\ phase = "active" /\ HasFree /\ has_tilt_support
    /\ IF tilt_position(tilt_calc) > 0
       THEN /\ tilt_calc' = start_travel_up(tilt_calc, tilt_time_up,
                                            tilt_time_down)
            /\ StartAutoUpdater
            /\ Start("open_cover_tilt", 0, "move", "open_cover")
       ELSE /\ Skip("open_cover_tilt", 0)
            /\ UNCHANGED <<tilt_calc, unsubscribe_auto_updater, subscriptions>>
    /\ UNCHANGED <<phase, fixed, travel_calc,
                   cover_is_last_toggle_direction_open>>

\* async_close_cover_tilt
CloseCoverTilt ==
    /\ phase = "active" /\ HasFree /\ has_tilt_support
    /\ IF tilt_position(tilt_calc) < 100
       THEN /\ tilt_calc' = start_travel_down(tilt_calc, tilt_time_up,
                                              tilt_time_down)
            /\ StartAutoUpdater
            /\ Start("close_cover_tilt", 0, "move", "close_cover")
       ELSE /\ Skip("close_cover_tilt", 0)
            /\ UNCHANGED <<tilt_calc, unsubscribe_auto_updater, subscriptions>>
    /\ UNCHANGED <<phase, fixed, travel_calc,
                   cover_is_last_toggle_direction_open>>

\* async_stop_cover: the stop pulse first; _handle_stop runs when it is done.
StopCover ==
    /\ phase = "active" /\ HasFree
    /\ Start("stop_cover", 0, "stop", "stop_cover")
    /\ UNCHANGED <<phase, fixed, travel_calc, tilt_calc,
                   unsubscribe_auto_updater, subscriptions,
                   cover_is_last_toggle_direction_open>>

\* set_position passing the user-facing target to the estimator unconverted.
SetPosition_unconverted(target_position) ==
    LET cur == 100 - travel_position(travel_calc)
        command == IF target_position < cur THEN "close_cover"
                   ELSE IF target_position > cur THEN "open_cover"
                   ELSE "none"
    IN /\ phase = "active" /\ HasFree
       /\ IF command # "none"
          THEN /\ StartAutoUpdater
               /\ travel_calc' = start_travel(travel_calc, target_position,
                                              travel_time_up, travel_time_down)
               /\ tilt_calc' \in update_tilt_before_travel(tilt_calc, command)
               /\ Start("set_position", target_position, "move", command)
          ELSE /\ Skip("set_position", target_position)
               /\ UNCHANGED <<travel_calc, tilt_calc, unsubscribe_auto_updater,
                              subscriptions>>
       /\ UNCHANGED <<phase, fixed,
                      cover_is_last_toggle_direction_open>>

\* set_position(target_position), target in the user-facing convention.
SetPosition(target_position) ==
    LET cur == 100 - travel_position(travel_calc)
        command == IF target_position < cur THEN "close_cover"
                   ELSE IF target_position > cur THEN "open_cover"
                   ELSE "none"
    IN /\ phase = "active" /\ HasFree
       /\ IF command # "none"
          THEN /\ StartAutoUpdater
               /\ travel_calc' = start_travel(travel_calc, 100 - target_position,
                                              travel_time_up, travel_time_down)
               /\ tilt_calc' \in update_tilt_before_travel(tilt_calc, command)
               /\ Start("set_position", target_position, "move", command)
          ELSE /\ Skip("set_position", target_position)
               /\ UNCHANGED <<travel_calc, tilt_calc, unsubscribe_auto_updater,
                              subscriptions>>
       /\ UNCHANGED <<phase, fixed,
                      cover_is_last_toggle_direction_open>>

\* set_tilt_position with the tilt pre-adjustment of set_position.
SetTiltPosition_preadjusts(target_position) ==
    LET cur == 100 - tilt_position(tilt_calc)
        command == IF target_position < cur THEN "close_cover"
                   ELSE IF target_position > cur THEN "open_cover"
                   ELSE "none"
    IN /\ phase = "active" /\ HasFree /\ has_tilt_support
       /\ IF command # "none"
          THEN /\ StartAutoUpdater
               /\ tilt_calc' \in update_tilt_before_travel(
                                     start_travel(tilt_calc,
                                                  100 - target_position,
                                                  tilt_time_up, tilt_time_down),
                                     command)
               /\ Start("set_tilt_position", target_position, "move", command)
          ELSE /\ Skip("set_tilt_position", target_position)
               /\ UNCHANGED <<tilt_calc, unsubscribe_auto_updater,
                              subscriptions>>
       /\ UNCHANGED <<phase, fixed, travel_calc,
                      cover_is_last_toggle_direction_open>>

\* set_tilt_position(target_position)
SetTiltPosition(target_position) ==
    LET cur == 100 - tilt_position(tilt_calc)
        command == IF target_position < cur THEN "close_cover"
                   ELSE IF target_position > cur THEN "open_cover"
                   ELSE "none"
    IN /\ phase = "active" /\ HasFree /\ has_tilt_support
       /\ IF command # "none"
          THEN /\ StartAutoUpdater
               /\ tilt_calc' = start_travel(tilt_calc, 100 - target_position,
                                            tilt_time_up, tilt_time_down)
               /\ Start("set_tilt_position", target_position, "move", command)
          ELSE /\ Skip("set_tilt_position", target_position)
               /\ UNCHANGED <<tilt_calc, unsubscribe_auto_updater,
                              subscriptions>>
       /\ UNCHANGED <<phase, fixed, travel_calc,
                      cover_is_last_toggle_direction_open>>

\* ------------------------------------------------------- external events
\* The listener's entity sets (SwitchListenerData) and the notifications the
\* host can deliver: no new state, or an entity with its new state value.
on_entries == {"sensor_on"}

off_entries == {"sensor_off"}

Events == {[present |-> FALSE, entity_id |-> "none", state |-> "none"]}
          \cup [present : {TRUE},
                entity_id : {"sensor_on", "sensor_off", "sensor_other"},
                state : {"on", "off", "unavailable"}]

\* _state_changed_for_entities without the test of the state's value.
state_changed_for_entities_any_value(new_state, listened_entities) ==
    new_state.entity_id \in listened_entities

\* _state_changed_for_entities
state_changed_for_entities(new_state, listened_entities) ==
    new_state.entity_id \in listened_entities /\ new_state.state = "on"

\* switch_state_change_listener: the on-callback, then the off-callback, then
\* the publication.
StateChanged(event) ==
    LET c == Ctl(travel_calc, tilt_calc, unsubscribe_auto_updater,
                 cover_is_last_toggle_direction_open)
        on_hit == event.present /\ state_changed_for_entities(event, on_entries)
        off_hit == event.present
                   /\ state_changed_for_entities(event, off_entries)
        after_on == IF on_hit THEN on_switch_on(c) ELSE {c}
        after_off == IF off_hit THEN UNION {on_switch_off(x) : x \in after_on}
                     ELSE after_on
    IN /\ phase = "active"
       /\ op' = OpWritten(IF on_hit /\ off_hit THEN "on_switch_on_off"
                          ELSE IF on_hit THEN "on_switch_on"
                          ELSE IF off_hit THEN "on_switch_off"
                          ELSE "state_changed", 0, NoCall, event.present)
       /\ IF event.present
          THEN \E r \in after_off :
                  /\ travel_calc' = r.travel
                  /\ tilt_calc' = r.tilt
                  /\ unsubscribe_auto_updater' = r.unsub
                  /\ subscriptions' = r.subs
                  /\ cover_is_last_toggle_direction_open' =
                         toggle_after_state(r.flag, r.travel, r.tilt)
          ELSE UNCHANGED <<travel_calc, tilt_calc, unsubscribe_auto_updater,
                           subscriptions,
                           cover_is_last_toggle_direction_open>>
       /\ UNCHANGED <<phase, fixed, tasks>>

\* ------------------------------------------------------------- tick loop
\* auto_updater_hook: publish, cancel the loop when the position is reached,
\* and create the auto_stop_if_necessary task.  The publication comes first:
\* when the position is reached, stop_auto_updater is called after it and
\* nothing is published after that.
Tick ==
    /\ phase # "constructed" /\ subscriptions > 0 /\ HasFree
    /\ op' = OpWritten("auto_updater_hook", 0, NoCall,
                       ~position_reached(travel_calc, tilt_calc))
    /\ cover_is_last_toggle_direction_open' =
           toggle_after_state(cover_is_last_toggle_direction_open,
                              travel_calc, tilt_calc)
    /\ LET c == Ctl(travel_calc, tilt_calc, unsubscribe_auto_updater,
                    cover_is_last_toggle_direction_open)
           r == IF position_reached(travel_calc, tilt_calc)
                THEN stop_auto_updater(c) ELSE c
       IN /\ unsubscribe_auto_updater' = r.unsub
          /\ subscriptions' = r.subs
    /\ tasks' = Put(tasks, Frame("auto_stop", "stop_cover", 0, "none"))
    /\ UNCHANGED <<phase, fixed, travel_calc, tilt_calc>>

\* ------------------------------------------------------------ coroutines
\* auto_stop_if_necessary from its start to its first suspension.
AutoStopStart(f) ==
    /\ f.kind = "auto_stop" /\ f.pc = 0
    /\ IF position_reached(travel_calc, tilt_calc)
       THEN /\ travel_calc' = calc_stop(travel_calc, travel_time_up,
                                        travel_time_down)
            /\ tilt_calc' = IF has_tilt_support
                            THEN calc_stop(tilt_calc, tilt_time_up,
                                           tilt_time_down)
                            ELSE tilt_calc
            /\ \/ /\ tasks' = Put(Take(tasks, f),
                                  handle_command("auto_stop", "stop_cover",
                                      cover_is_last_toggle_direction_open))
                  /\ op' = Op("task", 0, "None")
               \/ /\ service_raises
                  /\ tasks' = Take(tasks, f)
                  /\ op' = Op("task", 0, Raised)
       ELSE /\ tasks' = Take(tasks, f)
            /\ op' = Op("task", 0, NoCall)
            /\ UNCHANGED <<travel_calc, tilt_calc>>
    /\ UNCHANGED <<unsubscribe_auto_updater, subscriptions,
                   cover_is_last_toggle_direction_open>>

\* _push_switch: the second or the third call raises.  The exception ends
\* the coroutine: nothing after the call runs.
PushRaises(f) ==
    /\ f.pc \in {1, 2}
    /\ service_raises
    /\ tasks' = Take(tasks, f)
    /\ op' = Op("task", 0, Raised)
    /\ UNCHANGED <<travel_calc, tilt_calc, unsubscribe_auto_updater,
                   subscriptions,
                   cover_is_last_toggle_direction_open>>

\* _push_switch: the call asserting the option, after the first neutral call.
PushAssert(f) ==
    /\ f.pc = 1
    /\ tasks' = Put(Take(tasks, f), [f EXCEPT !.pc = 2])
    /\ op' = Op("task", 0, push_option(f.push))
    /\ UNCHANGED <<travel_calc, tilt_calc, unsubscribe_auto_updater,
                   subscriptions,
                   cover_is_last_toggle_direction_open>>

\* _push_switch: the closing neutral call.
PushRelease(f) ==
    /\ f.pc = 2
    /\ tasks' = Put(Take(tasks, f), [f EXCEPT !.pc = 3])
    /\ op' = Op("task", 0, "None")
    /\ UNCHANGED <<travel_calc, tilt_calc, unsubscribe_auto_updater,
                   subscriptions,
                   cover_is_last_toggle_direction_open>>

\* The pulse is done.  A stop command that pushed on tests the last toggle
\* direction again and pushes off if it is open by now.  Otherwise the state
\* is published, async_stop_cover runs _handle_stop, and the coroutine ends.
PushDone(f) ==
    /\ f.pc = 3
    /\ IF /\ f.cmd = "stop_cover" /\ f.push = "on"
          /\ cover_is_last_toggle_direction_open
       THEN /\ \/ /\ tasks' = Put(Take(tasks, f),
                                  [f EXCEPT !.pc = 1, !.push = "off"])
                  /\ op' = Op("task", 0, "None")
               \/ /\ service_raises
                  /\ tasks' = Take(tasks, f)
                  /\ op' = Op("task", 0, Raised)
            /\ UNCHANGED <<travel_calc, tilt_calc, unsubscribe_auto_updater,
                           subscriptions,
                           cover_is_last_toggle_direction_open>>
       ELSE LET flag == toggle_after_state(cover_is_last_toggle_direction_open,
                                           travel_calc, tilt_calc)
                c == Ctl(travel_calc, tilt_calc, unsubscribe_auto_updater, flag)
                r == IF f.kind = "stop" THEN handle_stop(c) ELSE c
            IN /\ tasks' = Take(tasks, f)
               /\ op' = OpWritten("task", 0, NoCall, r = c)
               /\ travel_calc' = r.travel
               /\ tilt_calc' = r.tilt
               /\ unsubscribe_auto_updater' = r.unsub
               /\ subscriptions' = r.subs
               /\ cover_is_last_toggle_direction_open' = r.flag

\* A coroutine in flight runs to its next suspension point.
TaskStep(f) ==
    /\ f \in InFlight
    /\ \/ AutoStopStart(f)
       \/ PushRaises(f)
       \/ PushAssert(f)
       \/ PushRelease(f)
       \/ PushDone(f)
    /\ UNCHANGED <<phase, fixed>>

\* ------------------------------------------------------------------ time
AdvanceTime ==
    /\ \/ ~calc_position_reached(travel_calc, travel_time_up, travel_time_down)
       \/ ~calc_position_reached(tilt_calc, tilt_time_up, tilt_time_down)
    /\ travel_calc' = Elapse(travel_calc, travel_time_up, travel_time_down)
    /\ tilt_calc' = Elapse(tilt_calc, tilt_time_up, tilt_time_down)
    /\ op' = Op("time", 0, NoCall)
    /\ UNCHANGED <<phase, fixed, unsubscribe_auto_updater, subscriptions,
                   cover_is_last_toggle_direction_open, tasks>>

\* --------------------------------------------------------- specification
\* Every frame a coroutine can be at.
Frames == [kind : {"move", "stop", "auto_stop"},
           cmd : {"open_cover", "close_cover", "stop_cover"},
           pc : 0..3, push : {"none", "on", "off"}]

Next ==
    \/ \E old_state \in OldStates : AddedToHass(old_state)
    \/ OpenCover
    \/ CloseCover
    \/ OpenCoverTilt
    \/ CloseCoverTilt
    \/ StopCover
    \/ \E t \in Percentages : SetPosition(t)
    \/ \E t \in TiltPercentages : SetTiltPosition(t)
    \/ \E event \in Events : StateChanged(event)
    \/ Tick
    \/ \E f \in Frames : TaskStep(f)
    \/ AdvanceTime

Spec == Init /\ [][Next]_vars

\* A controller whose actuator may raise on any service call.
FailInit ==
    /\ CoverInit
    /\ service_raises = TRUE
    /\ CalcIdle
    /\ SetupIdle

FailSpec == FailInit /\ [][Next]_vars

\* The host removes the entity.  The callbacks registered with async_on_remove
\* run: the listener's subscription ends.  The controller defines no
\* async_will_remove_from_hass; the tick-loop subscription is as it was.
Remove ==
    /\ phase = "active"
    /\ phase' = "removed"
    /\ op' = Op("remove", 0, NoCall)
    /\ UNCHANGED <<fixed, travel_calc, tilt_calc, unsubscribe_auto_updater,
                   subscriptions,
                   cover_is_last_toggle_direction_open, tasks>>

\* The controller from its construction to after its removal.
LifeSpec == Init /\ [][Next \/ Remove]_vars

\* The event loop runs every callback and coroutine that is ready, and time
\* passes.
LiveSpec ==
    /\ Spec
    /\ WF_vars(AdvanceTime)
    /\ WF_vars(Tick)
    /\ WF_vars(\E f \in Frames : TaskStep(f))

TypeOK ==
    /\ phase \in {"constructed", "active", "removed"}
    /\ service_raises \in BOOLEAN
    /\ unsubscribe_auto_updater \in BOOLEAN
    /\ subscriptions \in Nat
    /\ cover_is_last_toggle_direction_open \in BOOLEAN
    /\ travel_calc.position \in 0..100
    /\ tilt_calc.position \in 0..100
    /\ InFlight \subseteq Frames

\* ================================================= setting up a platform
\* (config.py, entity_registry.py, switch_listener.py, switch_user.py,
\* trigger_listener.py, cover.py, switch.py, binary_sensor.py)
\* Number of devices configured for a platform.
MaxDevices == 2

\* Number of entity ids the registry does not know.
MaxMissing == 2

DeviceIds == {"cover1", "cover2"}

SwitchIds == {"select.s1"}

SwitchPosition == {"left", "right"}

ActionType == {"on", "off"}

Platforms == {"cover", "switch", "binary_sensor"}

\* The names switch_user.py defines.
switch_user_names ==
    {"ButtonOption", "SWITCH_SCHEMA", "SwitchUserData", "from_switch_config",
     "SwitchUser"}

\* The names the module of a platform imports from switch_user.py.
imported_from_switch_user(module) ==
    IF module \in {"cover", "switch"}
    THEN {"SWITCH_SCHEMA", "SwitchUserData", "SwitchUser",
          "from_switch_user_config"}
    ELSE {}

\* Loading the module of a platform: an imported name that the module
\* imported from does not define raises ImportError.
import_module(module) ==
    IF imported_from_switch_user(module) \subseteq switch_user_names
    THEN Return(module)
    ELSE Raise("ImportError")

\* to_action_code without the branch of the inversion.
to_action_code_never_inverted(action, is_inverted) ==
    IF action = "off" THEN "i" ELSE "o"

to_action_code(action, is_inverted) ==
    IF ~is_inverted
    THEN IF action = "off" THEN "i" ELSE "o"
    ELSE IF action = "off" THEN "o" ELSE "i"

to_entity_id(device_id, action, position, is_inverted) ==
    LET position_code == IF position = "left" THEN "a" ELSE "b"
        action_code == to_action_code(action, is_inverted)
    IN "binary_sensor." \o device_id \o "_" \o position_code \o action_code
       \o "_pressed"

\* to_entity_pair: (on_entity_id, off_entity_id)
to_entity_pair(device_id, device_config) ==
    <<to_entity_id(device_id, "on", device_config.position,
                   device_config.is_inverted),
      to_entity_id(device_id, "off", device_config.position,
                   device_config.is_inverted)>>

\* entity_registry.from_entity_ids: the first id that is not found raises.
from_entity_ids(registry, entity_ids) ==
    IF \E i \in DOMAIN entity_ids : from_entity_id(registry, entity_ids[i]).raised
    THEN Raise("NoEntitySpecifiedError")
    ELSE Return([i \in DOMAIN entity_ids |->
                    from_entity_id(registry, entity_ids[i]).value])

\* from_switch_listener_config: switch_listener_config is the sequence of the
\* items (device_id, position, is_inverted) of the mapping.
from_switch_listener_config(registry, switch_listener_config) ==
    LET entity_pairs == [i \in DOMAIN switch_listener_config |->
                            to_entity_pair(switch_listener_config[i].device_id,
                                           switch_listener_config[i])]
        on_sensor_ids == [i \in DOMAIN entity_pairs |-> entity_pairs[i][1]]
        off_sensor_ids == [i \in DOMAIN entity_pairs |-> entity_pairs[i][2]]
        on_found == from_entity_ids(registry, on_sensor_ids)
        off_found == from_entity_ids(registry, off_sensor_ids)
    IN IF on_found.raised THEN on_found
       ELSE IF off_found.raised THEN off_found
       ELSE Return([on_entries |-> on_found.value,
                    off_entries |-> off_found.value])

\* trigger_listener.from_trigger_config
from_trigger_config(registry, trigger_config) ==
    LET on_found == from_entity_ids(registry, trigger_config.trigger_on_id)
        off_found == from_entity_ids(registry, trigger_config.trigger_off_id)
    IN IF on_found.raised THEN on_found
       ELSE IF off_found.raised THEN off_found
       ELSE Return([on_entries |-> on_found.value,
                    off_entries |-> off_found.value])

\* cover.from_time_config: both durations are read by subscript.
from_time_config(time_config) ==
    IF Has(time_config, "time_up") /\ Has(time_config, "time_down")
    THEN Return([up |-> time_config["time_up"],
                 down |-> time_config["time_down"]])
    ELSE Raise("KeyError")

\* cover.from_time_config_or_none, of config.get(CONF_TILTING_TIME): None for
\* a mapping without the key.
from_time_config_or_none(device_config) ==
    IF Has(device_config, "tilting_time")
    THEN from_time_config(device_config["tilting_time"])
    ELSE Return("None")

\* cover.from_config: the arguments of the constructor are evaluated in the
\* order name, actuator, listeners, traveling time, tilting time.  The name
\* is read by subscript; the actuator's mapping stays in device_config and is
\* emptied in place by from_switch_config (imported by cover.py under the
\* name from_switch_user_config).
cover_from_config(registry, id, device_config) ==
    IF ~Has(device_config, "name") THEN RaiseWith("KeyError", device_config)
    ELSE
    LET switch_user == from_switch_config(registry,
                                          device_config["virtual_switch"])
        left == [device_config EXCEPT !["virtual_switch"] = switch_user.config]
        switch_listener ==
            from_switch_listener_config(registry,
                                        device_config["switch_listeners"])
        traveling_time == from_time_config(device_config["traveling_time"])
        tilting_time == from_time_config_or_none(device_config)
    IN IF switch_user.raised THEN RaiseWith(switch_user.error, left)
       ELSE IF switch_listener.raised
            THEN RaiseWith(switch_listener.error, left)
       ELSE IF traveling_time.raised
            THEN RaiseWith(traveling_time.error, left)
       ELSE IF tilting_time.raised THEN RaiseWith(tilting_time.error, left)
       ELSE ReturnWith([unique_id |-> id, name |-> device_config["name"],
                        entry |-> switch_user.value.entry,
                        on_entries |-> switch_listener.value.on_entries,
                        off_entries |-> switch_listener.value.off_entries],
                       left)

\* switch.from_config: name, actuator and listeners are popped from
\* device_config, in this order, each before it is used.
switch_from_config(registry, id, device_config) ==
    IF ~Has(device_config, "name") THEN RaiseWith("KeyError", device_config)
    ELSE
    LET popped_name == Pop(device_config, "name")
        popped_switch == Pop(popped_name, "virtual_switch")
        popped_listeners == Pop(popped_switch, "switch_listeners")
        switch_user == from_switch_config(registry,
                                          device_config["virtual_switch"])
        switch_listener ==
            from_switch_listener_config(registry,
                                        device_config["switch_listeners"])
    IN IF switch_user.raised THEN RaiseWith(switch_user.error, popped_switch)
       ELSE IF switch_listener.raised
            THEN RaiseWith(switch_listener.error, popped_listeners)
       ELSE ReturnWith([unique_id |-> id, name |-> device_config["name"],
                        entry |-> switch_user.value.entry,
                        on_entries |-> switch_listener.value.on_entries,
                        off_entries |-> switch_listener.value.off_entries],
                       popped_listeners)

\* binary_sensor.from_config: the name is read by subscript, nothing is
\* popped.
binary_sensor_from_config(registry, id, device_config) ==
    IF ~Has(device_config, "name") THEN RaiseWith("KeyError", device_config)
    ELSE
    LET trigger_listener_data ==
            from_trigger_config(registry, device_config["switch_listeners"])
    IN IF trigger_listener_data.raised
       THEN RaiseWith(trigger_listener_data.error, device_config)
       ELSE ReturnWith([unique_id |-> id, name |-> device_config["name"],
                        on_entries |-> trigger_listener_data.value.on_entries,
                        off_entries |-> trigger_listener_data.value.off_entries],
                       device_config)

\* A from_config function is passed as the name of its platform.
from_config(from_config_function, registry, id, device_config) ==
    CASE from_config_function = "binary_sensor" ->
            binary_sensor_from_config(registry, id, device_config)
      [] from_config_function = "switch" ->
            switch_from_config(registry, id, device_config)
      [] OTHER -> cover_from_config(registry, id, device_config)

\* The try statement of from_config_or_none around the call that gave
\* entity: NoEntitySpecifiedError becomes None, a result that did not raise
\* with nothing built; any other exception propagates.
except_NoEntitySpecifiedError(entity) ==
    IF ~entity.raised
    THEN [raised |-> FALSE, none |-> FALSE, value |-> entity.value,
          config |-> entity.config]
    ELSE IF entity.error = "NoEntitySpecifiedError"
         THEN [raised |-> FALSE, none |-> TRUE, config |-> entity.config]
    ELSE [raised |-> TRUE, none |-> FALSE, error |-> entity.error,
          config |-> entity.config]

\* config.from_config_or_none
from_config_or_none(from_config_function, registry, id, device_config) ==
    except_NoEntitySpecifiedError(
        from_config(from_config_function, registry, id, device_config))

\* The device configurations after a comprehension over them that calls a
\* function on each in turn and ends at the first call that raises: those
\* called are as their call left them, the others as they were.
ConfigsLeft(device_configs, built) ==
    [i \in DOMAIN device_configs |->
        IF \E j \in 1..(i - 1) : built[j].raised THEN device_configs[i]
        ELSE built[i].config]

\* The first exception of a comprehension.
FirstRaised(built) ==
    built[CHOOSE i \in DOMAIN built :
             built[i].raised /\ \A j \in 1..(i - 1) : ~built[j].raised].error

\* A result that is None.
IsNone(entity) == Has(entity, "none") /\ entity.none

\* The values of results that did not raise.
Values(results) == [i \in DOMAIN results |-> results[i].value]

\* The list a comprehension over device_configs returns, built being what
\* its calls gave: the values of the calls that are not None, unless a call
\* raised.
Comprehension(device_configs, built) ==
    IF \E i \in DOMAIN built : built[i].raised
    THEN RaiseWith(FirstRaised(built), ConfigsLeft(device_configs, built))
    ELSE ReturnWith(Values(SelectSeq(built, LAMBDA entity : ~IsNone(entity))),
                    ConfigsLeft(device_configs, built))

\* config.devices_from_config: the devices built, in the order of the
\* configuration, without those that are None.
devices_from_config(from_config_function, registry, device_configs) ==
    Comprehension(device_configs,
                  [i \in DOMAIN device_configs |->
                      from_config_or_none(from_config_function, registry,
                                          device_configs[i].device_id,
                                          device_configs[i])])

\* binary_sensor.devices_from_config: from_config is called directly.
binary_sensor_devices_from_config(registry, device_configs) ==
    Comprehension(device_configs,
                  [i \in DOMAIN device_configs |->
                      from_config("binary_sensor", registry,
                                  device_configs[i].device_id,
                                  device_configs[i])])

\* Setting up a platform: its module is loaded, then async_setup_platform
\* builds the devices from the configuration.
setup_platform(module, registry, device_configs) ==
    IF import_module(module).raised
    THEN RaiseWith(import_module(module).error, device_configs)
    ELSE IF module = "binary_sensor"
         THEN binary_sensor_devices_from_config(registry, device_configs)
         ELSE devices_from_config(module, registry, device_configs)

\* ------------------------------------------------------ the setup's inputs
\* The items of a switch listener mapping (SWITCH_LISTENER_SCHEMA).
SwitchListenerConfigs ==
    [device_id : DeviceIds, position : SwitchPosition, is_inverted : BOOLEAN]

\* The entity ids a switch listener can name, and those a trigger lists.
SensorIds ==
    {to_entity_id(id, action, position, FALSE) :
        id \in DeviceIds, action \in ActionType, position \in SwitchPosition}

TriggerIds == {"binary_sensor.cover1_ao_pressed",
               "binary_sensor.cover1_ai_pressed",
               "input_boolean.trigger"}

\* A mapping with the optional name (vol.Optional(CONF_NAME)), and without.
Named(device_config) ==
    {device_config,
     [k \in DOMAIN device_config \cup {"name"} |->
         IF k = "name" THEN "Cover" ELSE device_config[k]]}

\* The actuator's mapping (SWITCH_SCHEMA): the options have defaults.
SwitchConfigs ==
    {[switch_id |-> switch, option_up |-> "BO", option_down |-> "BI"] :
        switch \in SwitchIds}

\* A mapping of durations (TIME_SCHEMA): both keys are optional.
TimeConfigs ==
    {[time_up |-> travel_time_up, time_down |-> travel_time_down],
     Pop([time_up |-> travel_time_up], "time_up")}

\* A device of the switch platform: one switch listener.
SwitchDeviceConfigs ==
    UNION {Named([device_id |-> id, virtual_switch |-> switch,
                  switch_listeners |-> <<l>>]) :
        id \in DeviceIds, switch \in SwitchConfigs,
        l \in SwitchListenerConfigs}

\* A device of the cover platform: a switch device with a traveling time.
CoverDeviceConfigs ==
    {[k \in DOMAIN c \cup {"traveling_time"} |->
         IF k = "traveling_time" THEN t ELSE c[k]] :
        c \in SwitchDeviceConfigs, t \in TimeConfigs}

\* A device of the binary sensor platform: one on-trigger, one off-trigger.
TriggerDeviceConfigs ==
    UNION {Named([device_id |-> id,
                  switch_listeners |-> [trigger_on_id |-> <<on>>,
                                        trigger_off_id |-> <<off>>]]) :
        id \in DeviceIds, on \in TriggerIds, off \in TriggerIds}

\* The device configurations of a platform.
DeviceConfigs(module) ==
    CASE module = "binary_sensor" -> TriggerDeviceConfigs
      [] module = "switch" -> SwitchDeviceConfigs
      [] OTHER -> CoverDeviceConfigs

\* The devices of a platform's configuration: a mapping by device id, its
\* items in order.
DomainConfigs(device_configs) ==
    {c \in UNION {[1..n -> device_configs] : n \in 0..MaxDevices} :
        \A i, j \in DOMAIN c : i # j => c[i].device_id # c[j].device_id}

\* The entity ids the configuration of a platform can name.
EntityIds(module) ==
    IF module = "binary_sensor" THEN TriggerIds ELSE SwitchIds \cup SensorIds

Registries(module) ==
    {EntityIds(module) \ missing :
        missing \in {m \in SUBSET EntityIds(module) :
                        Cardinality(m) <= MaxMissing}}

\* A platform about to be set up.
SetupInit ==
    /\ CoverInit /\ ~config.has_tilt
    /\ service_raises = FALSE
    /\ CalcIdle
    /\ platform \in Platforms
    /\ entity_registry \in Registries(platform)
    /\ domain_config \in DomainConfigs(DeviceConfigs(platform))
    /\ devices = NotBuilt
    /\ switch_listener_data = NotBuilt

\* What the steps of the setup leave alone.
OnlySetup ==
    UNCHANGED <<phase, config, switch_user_data, service_raises, time_data,
                calc, platform, entity_registry, travel_calc, tilt_calc,
                unsubscribe_auto_updater, subscriptions,
                cover_is_last_toggle_direction_open, tasks, op>>

\* The platform is set up: the build consumes the configuration.
SetupPlatform ==
    /\ ~devices.built
    /\ \E result \in {setup_platform(platform, entity_registry,
                                      domain_config)} :
          /\ devices' = IF result.raised
                        THEN [built |-> TRUE, raised |-> TRUE,
                              error |-> result.error]
                        ELSE [built |-> TRUE, raised |-> FALSE,
                              value |-> result.value]
          /\ domain_config' = result.config
    /\ OnlySetup /\ UNCHANGED switch_listener_data

\* switch_listener.from_switch_listener_config applied to the listeners of
\* the ith configured device (switch_listener.py imports nothing of
\* switch_user.py).
FromSwitchListenerConfig(i) ==
    /\ ~switch_listener_data.built
    /\ Has(domain_config[i], "switch_listeners")
    /\ platform # "binary_sensor"
    /\ LET result == from_switch_listener_config(
                         entity_registry, domain_config[i]["switch_listeners"])
           listeners == domain_config[i]["switch_listeners"]
       IN switch_listener_data' =
             IF result.raised
             THEN [built |-> TRUE, config |-> listeners, raised |-> TRUE,
                   error |-> result.error]
             ELSE [built |-> TRUE, config |-> listeners, raised |-> FALSE,
                   value |-> result.value]
    /\ OnlySetup /\ UNCHANGED <<domain_config, devices>>

SetupNext ==
    \/ SetupPlatform
    \/ \E i \in DOMAIN domain_config : FromSwitchListenerConfig(i)

SetupSpec == SetupInit /\ [][SetupNext]_vars

\* ==================================================== the estimator apart
\* An estimator built as the controller builds its travel estimator, for any
\* durations, driven by the operations the controller calls and by the clock.
\* The clock keeps counting after the travel has reached where it ends.
Durations == {1, 2, 3, 4}

\* Time units the clock counts during one travel.
MaxElapsed == 5

\* Targets start_travel and positions set_position are called with.
Targets == {0, 25, 50, 100}

TimeDatas == [up : Durations, down : Durations]

\* The construction with the two durations exchanged.
TravelTimes_exchanged(traveling_time_data) ==
    [travel_time_down |-> traveling_time_data.up,
     travel_time_up |-> traveling_time_data.down]

\* TravelCalculator(travel_time_down=traveling_time_data.down,
\*                  travel_time_up=traveling_time_data.up)
TravelTimes(traveling_time_data) ==
    [travel_time_down |-> traveling_time_data.down,
     travel_time_up |-> traveling_time_data.up]

\* The estimator's current_position() and position_reached().
CalcPosition ==
    current_position(calc, TravelTimes(time_data).travel_time_up,
                     TravelTimes(time_data).travel_time_down)

CalcReached ==
    calc_position_reached(calc, TravelTimes(time_data).travel_time_up,
                          TravelTimes(time_data).travel_time_down)

EstimatorInit ==
    /\ CoverInit /\ ~config.has_tilt
    /\ service_raises = FALSE
    /\ SetupIdle
    /\ time_data \in TimeDatas
    /\ calc = TravelCalculator

\* What the steps of the estimator apart leave alone.
OnlyCalc ==
    UNCHANGED <<phase, config, switch_user_data, service_raises, time_data,
                platform, entity_registry, domain_config, devices,
                switch_listener_data, travel_calc,
                tilt_calc, unsubscribe_auto_updater, subscriptions,
                cover_is_last_toggle_direction_open, tasks, op>>

CalcSetPosition(p) ==
    /\ calc' \in calc_set_position(calc, p)
    /\ OnlyCalc

CalcStartTravelUp ==
    /\ calc' = start_travel_up(calc, TravelTimes(time_data).travel_time_up,
                               TravelTimes(time_data).travel_time_down)
    /\ OnlyCalc

CalcStartTravelDown ==
    /\ calc' = start_travel_down(calc, TravelTimes(time_data).travel_time_up,
                                 TravelTimes(time_data).travel_time_down)
    /\ OnlyCalc

CalcStartTravel(target) ==
    /\ calc' = start_travel(calc, target,
                            TravelTimes(time_data).travel_time_up,
                            TravelTimes(time_data).travel_time_down)
    /\ OnlyCalc

CalcStop ==
    /\ calc' = calc_stop(calc, TravelTimes(time_data).travel_time_up,
                         TravelTimes(time_data).travel_time_down)
    /\ OnlyCalc

\* One time unit passes during a travel.
CalcElapse ==
    /\ is_traveling(calc) /\ calc.elapsed < MaxElapsed
    /\ calc' = [calc EXCEPT !.elapsed = calc.elapsed + 1]
    /\ OnlyCalc

EstimatorNext ==
    \/ \E p \in Targets : CalcSetPosition(p)
    \/ CalcStartTravelUp
    \/ CalcStartTravelDown
    \/ \E target \in Targets : CalcStartTravel(target)
    \/ CalcStop
    \/ CalcElapse

EstimatorSpec == EstimatorInit /\ [][EstimatorNext]_vars

\* ================================================================ claims
\* The step of this transition resumed frame f, which became g.
Resumed(f, g) == op'.name = "task" /\ f \in InFlight /\ tasks' = Put(Take(tasks, f), g)

\* The step of this transition resumed frame f, which ended.
Ended(f) == op'.name = "task" /\ f \in InFlight /\ tasks' = Take(tasks, f)

\* The step of this transition was command name, and started frame f.
Started(name, f) == op'.name = name /\ tasks' = Put(tasks, f)

\* The pulses of the two directions: open pushes off, close pushes on.
OpenPulse == "off"

ClosePulse == "on"

\* C1: every stop() issues exactly one pulse, opposite to the last toggle
\* direction (the close pulse if it is open, the open pulse if it is not),
\* and when the command ends the last toggle direction is the pulse it sent.
C1_StopPulseOppositeAndRecorded ==
    [][\A f \in Frames :
          /\ Started("stop_cover", f) =>
                f.push = IF cover_is_last_toggle_direction_open
                         THEN ClosePulse ELSE OpenPulse
          /\ f.kind = "stop" /\ f.pc = 3 =>
                ~Resumed(f, [f EXCEPT !.pc = 1, !.push = OpenPulse])
          /\ f.kind = "stop" /\ Ended(f) =>
                cover_is_last_toggle_direction_open' = (f.push = OpenPulse)
      ]_vars

\* C2: open(), when it is not a no-op, starts upward travel toward 0 and its
\* pulse asserts the option configured for "up"; close() starts downward
\* travel toward 100 and its pulse asserts the option configured for "down".
C2_OpenPushesUpClosePushesDown ==
    [][/\ op'.name = "open_cover" /\ travel_position(travel_calc) > 0 =>
             /\ travel_calc'.direction = "up" /\ Destination(travel_calc') = 0
             /\ Started("open_cover", Frame("move", "open_cover", 1, OpenPulse))
       /\ op'.name = "close_cover" /\ travel_position(travel_calc) < 100 =>
             /\ travel_calc'.direction = "down"
             /\ Destination(travel_calc') = 100
             /\ Started("close_cover", Frame("move", "close_cover", 1, ClosePulse))
       /\ \A f \in Frames :
             f.kind = "move" /\ Resumed(f, [f EXCEPT !.pc = 2]) /\ f.pc = 1 =>
                op'.call = IF f.cmd = "open_cover" THEN config.option_up
                           ELSE config.option_down
      ]_vars

\* The logical cover state derived from the travel estimator alone: whether
\* it travels, its direction, its position.
travel_state(tc) ==
    IF is_traveling(tc)
    THEN IF tc.direction = "up" THEN "opening" ELSE "closing"
    ELSE IF travel_position(tc) = 100 THEN "closed" ELSE "open"

\* The travel estimator is stopped where it was, and the tick loop cancelled.
StoppedHere ==
    /\ ~is_traveling(travel_calc')
    /\ travel_calc'.position = travel_position(travel_calc)
    /\ ~unsubscribe_auto_updater'

\* Travel in direction d toward extreme e starts from the current position,
\* and the tick loop is armed.
StartsToward(d, e) ==
    /\ travel_calc'.direction = d
    /\ Destination(travel_calc') = e
    /\ travel_calc'.position = travel_position(travel_calc)
    /\ travel_calc'.elapsed = 0
    /\ unsubscribe_auto_updater'

NothingChanges ==
    UNCHANGED <<travel_calc, tilt_calc, unsubscribe_auto_updater,
                cover_is_last_toggle_direction_open, tasks>>

\* The cases of on_external_on_event, the cover being in logical state s.
OnEventCases(s) ==
    /\ s = "closing" => StoppedHere
    /\ s \in {"open", "opening"} => StartsToward("down", 100)
    /\ s = "closed" => NothingChanges

\* The cases of on_external_off_event, the cover being in logical state s.
OffEventCases(s) ==
    /\ s = "opening" => StoppedHere
    /\ \/ s \in {"closed", "closing"}
       \/ s = "open" /\ travel_position(travel_calc) > 0
       => StartsToward("up", 0)
    /\ s = "open" /\ travel_position(travel_calc) = 0 => NothingChanges

\* C3: on_external_on_event, with closing, opening and idle derived from the
\* travel estimator (whether it travels, its direction, its position): if
\* closing, travel is stopped at its current computed position and the tick
\* loop is cancelled; if idle-open or opening, downward travel toward 100
\* starts and the tick loop is armed; if idle and fully closed, nothing
\* changes.
C3_OnEventByTravelState ==
    [][op'.name = "on_switch_on" =>
           OnEventCases(travel_state(travel_calc))]_vars

\* C4: on_external_off_event, with opening, closing and idle derived from
\* the travel estimator: if opening, travel is stopped at its current
\* computed position and the tick loop is cancelled; if idle-closed, closing
\* or idle partially open, upward travel toward 0 starts and the tick loop is
\* armed; if idle and fully open, nothing changes.
C4_OffEventByTravelState ==
    [][op'.name = "on_switch_off" =>
           OffEventCases(travel_state(travel_calc))]_vars

\* Between two percentages, inclusive.
Between(x, a, b) == (a <= x /\ x <= b) \/ (b <= x /\ x <= a)

\* C5: set_position(t) at user-facing position c: if t < c the close pulse is
\* sent and the travel estimator moves down, if t > c the open pulse is sent
\* and it moves up, in both cases from the current position toward the
\* internal target 100 - t; if t = c no call is issued and nothing changes.
\* As time passes the travel keeps its direction and target and its position
\* moves toward the target without passing it, so it ends at 100 - t.
C5_SetPositionCases ==
    [][/\ op'.name = "set_position" =>
             LET t == op'.arg
                 c == current_cover_position(travel_calc)
             IN /\ t < c =>
                      /\ Started("set_position",
                                 Frame("move", "close_cover", 1, ClosePulse))
                      /\ travel_calc'.direction = "down"
                /\ t > c =>
                      /\ Started("set_position",
                                 Frame("move", "open_cover", 1, OpenPulse))
                      /\ travel_calc'.direction = "up"
                /\ t # c =>
                      /\ travel_calc'.target_position = 100 - t
                      /\ Destination(travel_calc') = 100 - t
                      /\ travel_calc'.position = travel_position(travel_calc)
                      /\ unsubscribe_auto_updater'
                /\ t = c => op'.call = NoCall /\ NothingChanges
       /\ op'.name = "time" /\ is_traveling(travel_calc) =>
             /\ travel_calc'.direction = travel_calc.direction
             /\ Destination(travel_calc') = Destination(travel_calc)
             /\ Between(travel_position(travel_calc'),
                        travel_position(travel_calc), Destination(travel_calc))
             /\ \/ travel_position(travel_calc') # travel_position(travel_calc)
                \/ travel_position(travel_calc) = Destination(travel_calc)
      ]_vars

\* C5: set_position(50) on an open cover has started downward travel toward
\* the internal target 50.
C5_Witness ==
    /\ op.name = "set_position" /\ op.arg = 50
    /\ travel_calc.direction = "down" /\ travel_calc.position = 0
    /\ travel_calc.target_position = 50

\* C6: with a tilt estimator configured, every open() that starts travel
\* leaves the tilt estimator idle at 0 and every close() that starts travel
\* leaves it idle at 100, whatever the tilt estimator was doing.
C6_TiltPreAdjusted ==
    [][has_tilt_support =>
          /\ op'.name = "open_cover" /\ op'.call # NoCall =>
                ~is_traveling(tilt_calc') /\ tilt_position(tilt_calc') = 0
          /\ op'.name = "close_cover" /\ op'.call # NoCall =>
                ~is_traveling(tilt_calc') /\ tilt_position(tilt_calc') = 100
      ]_vars

\* No command and no external event: the step is the tick loop's, a
\* coroutine's or the clock's.
Quiet == op.name \in {"task", "time", "auto_updater_hook"}

\* Both estimators are idle and the tick loop is cancelled.
Settled ==
    /\ ~is_traveling(travel_calc)
    /\ ~is_traveling(tilt_calc)
    /\ ~unsubscribe_auto_updater

\* Estimator c, traveling, is idle after the step, as d.
CameToRest(c, d) == is_traveling(c) /\ ~is_traveling(d)

\* C7: once no further command or event arrives, the controller eventually
\* stays in a state where both estimators are idle and the tick loop is
\* cancelled; and a step of the tick loop, of the clock or of a coroutine
\* other than the end of a stop command brings an estimator to rest only at
\* the target it was traveling to.
C7_EventuallyIdleAtTargets ==
    /\ <>[]Quiet => <>[]Settled
    /\ [][/\ op'.name \in {"task", "time", "auto_updater_hook"}
           /\ ~(\E f \in Frames : f.kind = "stop" /\ Ended(f))
           => /\ CameToRest(travel_calc, travel_calc') =>
                    travel_calc'.position = Destination(travel_calc)
              /\ CameToRest(tilt_calc, tilt_calc') =>
                    tilt_calc'.position = Destination(tilt_calc)
          ]_vars

\* C7: the auto stop has brought a closing cover to rest at 100, its pulse is
\* done, and the tick loop is cancelled.
C7_Witness ==
    /\ op.name = "task" /\ op.call = NoCall
    /\ Settled
    /\ travel_calc.position = 100
    /\ tasks = EmptyBag

\* C8: open() at travel position 0 and close() at travel position 100 issue
\* no actuator call and change neither the estimators, the tick loop, the
\* last toggle direction nor the coroutines in flight.
C8_OpenCloseNoOp ==
    [][/\ op'.name = "open_cover" /\ travel_position(travel_calc) = 0 =>
             op'.call = NoCall /\ NothingChanges
       /\ op'.name = "close_cover" /\ travel_position(travel_calc) = 100 =>
             op'.call = NoCall /\ NothingChanges
      ]_vars

\* C8: open() has returned without a call on a fully open cover at rest.
C8_Witness ==
    /\ op.name = "open_cover" /\ op.call = NoCall
    /\ ~is_traveling(travel_calc) /\ travel_calc.position = 0
    /\ ~unsubscribe_auto_updater

\* C9: set_tilt_position(t) leaves the travel estimator unchanged and applies
\* no tilt pre-adjustment: when t differs from the current tilt, the tilt
\* estimator travels from its current position toward 100 - t, the tick loop
\* is armed and a pulse starts; when t is the current tilt nothing changes.
C9_SetTiltPositionFrame ==
    [][op'.name = "set_tilt_position" =>
          LET t == op'.arg
              c == 100 - tilt_position(tilt_calc)
          IN /\ travel_calc' = travel_calc
             /\ cover_is_last_toggle_direction_open' =
                    cover_is_last_toggle_direction_open
             /\ t # c =>
                   /\ tilt_calc'.direction = IF t < c THEN "down" ELSE "up"
                   /\ tilt_calc'.target_position = 100 - t
                   /\ tilt_calc'.position = tilt_position(tilt_calc)
                   /\ unsubscribe_auto_updater'
                   /\ Started("set_tilt_position",
                              Frame("move", IF t < c THEN "close_cover"
                                            ELSE "open_cover", 1,
                                    IF t < c THEN ClosePulse ELSE OpenPulse))
             /\ t = c => op'.call = NoCall /\ NothingChanges
      ]_vars

\* C9: set_tilt_position(0) has started downward tilt travel toward 100 while
\* the cover travels up.
C9_Witness ==
    /\ op.name = "set_tilt_position" /\ op.arg = 0
    /\ tilt_calc.direction = "down" /\ tilt_calc.target_position = 100
    /\ travel_calc.direction = "up"

\* C10: after activation with a persisted position percentage p, the travel
\* estimator is idle at internal position 100 - p and the user-facing
\* position read back is p.
C10_RestoreRoundTrip ==
    op.name = "added_to_hass" /\ op.arg # Absent =>
        /\ ~is_traveling(travel_calc)
        /\ travel_calc.position = 100 - op.arg
        /\ current_cover_position(travel_calc) = op.arg

\* C10: the controller is activated with persisted position 0: the estimator
\* is at 100.
C10_Witness ==
    /\ op.name = "added_to_hass" /\ op.arg = 0
    /\ travel_calc.position = 100

\* C11: on activation with a tilt estimator configured, whenever the persisted
\* state holds a tilt percentage q the tilt estimator is idle at 100 - q after
\* the activation, whether or not the persisted state also holds a position.
C11_TiltRestoredWhenPresent ==
    [][\A old_state \in OldStates :
          /\ AddedToHass(old_state)
          /\ has_tilt_support
          /\ old_state.present /\ old_state.tilt # Absent
          => /\ ~is_traveling(tilt_calc')
             /\ tilt_calc'.position = 100 - old_state.tilt
      ]_vars

\* C12: when a call of a pulse raises, no further call of the pulse is issued
\* (the coroutine ends, or the command returns without one), and the
\* estimators are where a pulse that succeeded would leave them: for open,
\* close and set_position the travel is started and the tick loop armed, a
\* pulse failing later leaves the estimators and the tick loop as they are,
\* and for stop no estimator travels and the tick loop is cancelled.
C12_FailedPulseKeepsEstimators ==
    [][op'.call = Raised =>
          /\ \/ op'.name # "task" /\ tasks' = tasks
             \/ \E f \in Frames : Ended(f)
          /\ op'.name \in {"open_cover", "close_cover", "set_position"} =>
                is_traveling(travel_calc') /\ unsubscribe_auto_updater'
          /\ (\E f \in Frames : f.kind = "move" /\ Ended(f)) =>
                UNCHANGED <<travel_calc, tilt_calc, unsubscribe_auto_updater>>
          /\ \/ op'.name = "stop_cover"
             \/ \E f \in Frames : f.kind = "stop" /\ Ended(f)
             => /\ ~is_traveling(travel_calc')
                /\ ~is_traveling(tilt_calc')
                /\ ~unsubscribe_auto_updater'
      ]_vars

\* C13: once the controller is detached the tick loop is cancelled, and after
\* the detach no external event is dispatched, no tick callback runs and no
\* auto-stop task is created.
C13_NothingRunsAfterDetach ==
    [][/\ phase' = "removed" => ~unsubscribe_auto_updater'
       /\ phase = "removed" =>
             /\ op'.name \notin {"on_switch_on", "on_switch_off",
                                 "on_switch_on_off", "state_changed"}
             /\ op'.name # "auto_updater_hook"
             /\ \A f \in Frames :
                   f.kind = "auto_stop" =>
                      CopiesIn(f, tasks') <= CopiesIn(f, tasks)
      ]_vars

\* C14: the state is published after every tick, after every external on- or
\* off-event, and when a command (open, close, stop, set_position,
\* set_tilt_position) completes: the step that ends the operation publishes
\* after the last change it makes to an estimator or to the tick loop.
C14_PublishedAfterLastChange ==
    [][/\ op'.name = "auto_updater_hook" => op'.written
       /\ op'.name \in {"on_switch_on", "on_switch_off", "on_switch_on_off"} =>
             op'.written
       /\ \A f \in Frames :
             f.kind \in {"move", "stop"} /\ Ended(f) => op'.written
      ]_vars

\* C15: in every state of the activated controller set-position is offered,
\* and set-tilt-position is offered if and only if a tilt estimator is
\* configured, whatever the travel and tilt positions are.
C15_FeaturesOffered ==
    phase = "active" =>
        LET features == supported_features(travel_calc, tilt_calc)
        IN /\ "SET_POSITION" \in features
           /\ "SET_TILT_POSITION" \in features <=> has_tilt_support

\* C16: for each state-change notification the listener invokes the
\* on-callback if and only if a new state exists, its value is "on" and the
\* entity is in the on-set, and the off-callback if and only if the same holds
\* for the off-set; a notification that invokes no callback leaves the
\* estimators, the tick loop and the reported state as they are.
C16_DispatchIffOnAndListed ==
    [][\A event \in Events :
          StateChanged(event) =>
             LET on_due == /\ event.present /\ event.state = "on"
                           /\ event.entity_id \in on_entries
                 off_due == /\ event.present /\ event.state = "on"
                            /\ event.entity_id \in off_entries
             IN /\ op'.name \in {"on_switch_on", "on_switch_on_off"} <=> on_due
                /\ op'.name \in {"on_switch_off", "on_switch_on_off"} <=> off_due
                /\ ~on_due /\ ~off_due =>
                      /\ UNCHANGED <<travel_calc, tilt_calc,
                                     unsubscribe_auto_updater, tasks>>
                      /\ state(travel_calc', tilt_calc') =
                             state(travel_calc, tilt_calc)
      ]_vars

\* C16: a notification that the on-entity is "on" has reached an open cover at
\* rest: the on-callback has started downward travel.
C16_Witness ==
    /\ op.name = "on_switch_on" /\ op.written
    /\ travel_calc.direction = "down" /\ travel_calc.position = 0
    /\ travel_calc.elapsed = 0

\* The sequence of the elements of a sequence of sequences s, as a set.
Range(s) == {s[i] : i \in DOMAIN s}

\* C17: for every device id, position and inversion flag the on and off entity
\* ids of a switch position pair are binary_sensor.<id>_<p><a>_pressed, with
\* p = a for left and b for right, a = o for the on id and i for the off id
\* when not inverted and the reverse when inverted; the two ids differ, and
\* toggling the inversion swaps the pair; right and inverted for cover1 gives
\* on = binary_sensor.cover1_bi_pressed, off = binary_sensor.cover1_bo_pressed.
\* The entries from_switch_listener_config returns for a listener are those
\* of these ids.
C17_EntityPairSynthesis ==
    /\ \A id \in DeviceIds, position \in SwitchPosition, is_inverted \in BOOLEAN :
          LET device_config == [device_id |-> id, position |-> position,
                                is_inverted |-> is_inverted]
              pair == to_entity_pair(id, device_config)
              p == IF position = "left" THEN "a" ELSE "b"
              on_code == IF is_inverted THEN "i" ELSE "o"
              off_code == IF is_inverted THEN "o" ELSE "i"
          IN /\ pair[1] = "binary_sensor." \o id \o "_" \o p \o on_code
                          \o "_pressed"
             /\ pair[2] = "binary_sensor." \o id \o "_" \o p \o off_code
                          \o "_pressed"
             /\ pair[1] # pair[2]
             /\ to_entity_pair(id, [device_config EXCEPT
                                       !.is_inverted = ~is_inverted])
                    = <<pair[2], pair[1]>>
    /\ to_entity_pair("cover1", [device_id |-> "cover1", position |-> "right",
                                 is_inverted |-> TRUE])
           = <<"binary_sensor.cover1_bi_pressed",
               "binary_sensor.cover1_bo_pressed">>
    /\ switch_listener_data.built =>
          \/ switch_listener_data.raised
          \/ LET l == switch_listener_data.config[1]
                 p == IF l.position = "left" THEN "a" ELSE "b"
                 on_code == IF l.is_inverted THEN "i" ELSE "o"
                 off_code == IF l.is_inverted THEN "o" ELSE "i"
             IN /\ switch_listener_data.value.on_entries =
                       <<"binary_sensor." \o l.device_id \o "_" \o p
                         \o on_code \o "_pressed">>
                /\ switch_listener_data.value.off_entries =
                       <<"binary_sensor." \o l.device_id \o "_" \o p
                         \o off_code \o "_pressed">>

\* C17: from_switch_listener_config has been applied to the right, inverted
\* switch position of cover1, and the registry knew both ids.
C17_Witness ==
    /\ switch_listener_data.built /\ ~switch_listener_data.raised
    /\ switch_listener_data.config =
           <<[device_id |-> "cover1", position |-> "right",
              is_inverted |-> TRUE]>>
    /\ switch_listener_data.value.on_entries =
           <<"binary_sensor.cover1_bi_pressed">>
    /\ switch_listener_data.value.off_entries =
           <<"binary_sensor.cover1_bo_pressed">>

\* Every identifier of device_config is known to the registry.
Resolves(device_config) ==
    IF platform = "binary_sensor"
    THEN Range(device_config["switch_listeners"].trigger_on_id)
         \cup Range(device_config["switch_listeners"].trigger_off_id)
         \subseteq entity_registry
    ELSE /\ device_config["virtual_switch"]["switch_id"] \in entity_registry
         /\ \A l \in Range(device_config["switch_listeners"]) :
               Range(to_entity_pair(l.device_id, l)) \subseteq entity_registry

\* C18: for each platform (cover, switch, binary sensor) the build raises no
\* exception, and the devices built are the configured devices whose
\* identifiers all resolve, in the order of the configuration.
C18_SkipAndContinue ==
    [][SetupPlatform =>
          /\ ~devices'.raised
          /\ LET resolved == SelectSeq(domain_config, Resolves)
             IN [i \in DOMAIN devices'.value |-> devices'.value[i].unique_id]
                    = [i \in DOMAIN resolved |-> resolved[i].device_id]
      ]_vars

\* The duration of the direction the estimator apart travels in.
CalcTravelTime ==
    IF calc.direction = "down" THEN time_data.down ELSE time_data.up

\* The distance between two percentages.
Distance(a, b) == IF a < b THEN b - a ELSE a - b

\* C19: while traveling, the estimated position is the start position plus
\* (downward, with the down duration) or minus (upward, with the up duration)
\* 100 * elapsed / travel_time, in whole percent, and held at where the travel
\* ends; for all durations, travel down from 0 for exactly the down duration
\* gives 100 with position_reached true, and for half the down duration 50.
C19_LinearInElapsedTime ==
    /\ is_traveling(calc) =>
          LET moved == Distance(calc.position, CalcPosition)
          IN /\ CalcPosition \in 0..100
             /\ Between(CalcPosition, calc.position, Destination(calc))
             /\ CalcPosition # Destination(calc) =>
                   /\ CalcTravelTime * moved <= 100 * calc.elapsed
                   /\ 100 * calc.elapsed < CalcTravelTime * (moved + 1)
             /\ CalcPosition = Destination(calc) =>
                   100 * calc.elapsed >= CalcTravelTime * moved
    /\ /\ calc.direction = "down" /\ calc.position = 0
       /\ calc.target_position = NoTarget
       => /\ calc.elapsed = time_data.down => CalcPosition = 100 /\ CalcReached
          /\ 2 * calc.elapsed = time_data.down =>
                CalcPosition = 50 /\ ~CalcReached

\* C19: with a down duration of 4 units (24 s), the estimator is half way down
\* from 0 after 2 units (12 s).
C19_Witness ==
    /\ calc.direction = "down" /\ calc.position = 0
    /\ calc.target_position = NoTarget
    /\ time_data = [up |-> 3, down |-> 4]
    /\ calc.elapsed = 2 /\ CalcPosition = 50

\* C20: during a travel toward an explicit target T started from p the
\* estimated position lies between p and T; after a positive time shorter
\* than the time the travel requires it is strictly between them, and so is
\* the position a stop freezes; once the required time has elapsed it is T,
\* however long the clock runs on.
C20_NeverPastTheTarget ==
    is_traveling(calc) /\ calc.target_position # NoTarget =>
        LET p == calc.position
            T == calc.target_position
            required_elapsed ==
                100 * calc.elapsed >= CalcTravelTime * Distance(p, T)
            stopped == calc_stop(calc, TravelTimes(time_data).travel_time_up,
                                 TravelTimes(time_data).travel_time_down)
        IN /\ Between(CalcPosition, p, T)
           /\ stopped.position = CalcPosition
           /\ calc.elapsed > 0 /\ ~required_elapsed =>
                 CalcPosition # p /\ CalcPosition # T /\ ~CalcReached
           /\ required_elapsed => CalcPosition = T /\ CalcReached

\* C20: a travel from 0 toward the target 50 with a down duration of 2 units
\* needs 1 unit; 3 units have elapsed and the position is 50.
C20_Witness ==
    /\ calc.direction = "down" /\ calc.position = 0
    /\ calc.target_position = 50
    /\ time_data.down = 2 /\ calc.elapsed = 3
    /\ CalcPosition = 50

\* Frame f is a user command between the first and the last call of its
\* pulse: the first call is issued, the last one is not.
MidPulse(f) == f \in InFlight /\ f.kind \in {"move", "stop"} /\ f.pc \in {1, 2}

\* The step of this transition is a step of frame f's coroutine.
StepOf(f) == op'.name = "task" /\ f \in InFlight /\ Take(tasks, f) \sqsubseteq tasks'

\* C21: while a user command is between the first and the last call of its
\* pulse, no tick callback runs, and no step other than that command's (the
\* passing of time apart) changes an estimator or the tick-loop subscription.
C21_PulseUndisturbed ==
    [][\A f \in Frames :
          MidPulse(f) =>
             /\ op'.name # "auto_updater_hook"
             /\ op'.name # "time" /\ ~StepOf(f) =>
                   UNCHANGED <<travel_calc, tilt_calc, unsubscribe_auto_updater>>
      ]_vars


\* The step of this transition issued the first call of an auto-stop pulse.
AutoStopPulse ==
    \E f \in Frames :
       /\ f.kind = "auto_stop" /\ f.pc = 0
       /\ \E push \in {"on", "off"} :
             Resumed(f, Frame("auto_stop", "stop_cover", 1, push))

\* An estimator is in a travel episode: started and not yet stopped.
InEpisode ==
    is_traveling(travel_calc) \/ (has_tilt_support /\ is_traveling(tilt_calc))

\* C22: the auto-stop pulse is issued once for a travel episode that runs to
\* completion: the step that issues it ends an episode in progress whose
\* position is reached (no auto-stop pulse is issued when no estimator
\* travels, the episode having been stopped already), and the tick callback
\* issues no call itself: it leaves the pulse to a task.
C22_AutoStopOncePerEpisode ==
    [][/\ AutoStopPulse =>
             /\ InEpisode
             /\ position_reached(travel_calc, tilt_calc)
       /\ op'.name = "auto_updater_hook" =>
             /\ op'.call = NoCall
             /\ tasks' = Put(tasks, Frame("auto_stop", "stop_cover", 0, "none"))
      ]_vars


\* C23: the host holds at most one tick-loop subscription, and holds one
\* exactly when the controller holds its cancel handle: starting travel while
\* the loop is armed subscribes no second time, a cancel ends the one
\* subscription, and a cancel with no handle held changes nothing.
C23_SingleSubscription ==
    /\ subscriptions \in {0, 1}
    /\ subscriptions = 1 <=> unsubscribe_auto_updater

\* C23: open() has reversed a cover that was closing half way, the loop being
\* armed already: one subscription.
C23_Witness ==
    /\ op.name = "open_cover" /\ op.call = "None"
    /\ travel_calc.direction = "up" /\ travel_calc.position = 50
    /\ travel_calc.elapsed = 0
    /\ unsubscribe_auto_updater /\ subscriptions = 1


\* The target state configured for a push: the option of "up" for push_on,
\* the option of "down" for push_off.
ConfiguredState(push) ==
    IF push = "on" THEN config.option_up ELSE config.option_down

\* The step of this transition began a pulse: a coroutine has issued the
\* first, neutral call and is suspended on it.
PulseBegins ==
    /\ op'.call = "None"
    /\ \E g \in Frames :
          /\ g.pc = 1 /\ g.push \in {"on", "off"}
          /\ \/ tasks' = Put(tasks, g)
             \/ \E f \in Frames : f.pc \in {0, 3} /\ Resumed(f, g)

\* C24: every pulse is three calls on the actuator entity, each issued by the
\* coroutine when its previous call has returned: the neutral option, then
\* the configured target state of the push, then the neutral option; after
\* the third call the coroutine issues no further call of that pulse.
C24_PulseIsNeutralStateNeutral ==
    [][/\ op'.call # NoCall =>
             \/ PulseBegins
             \/ \E f \in Frames : f.pc \in {1, 2} /\ StepOf(f)
       /\ \A f \in Frames :
             StepOf(f) =>
                /\ f.pc = 1 => /\ Resumed(f, [f EXCEPT !.pc = 2])
                               /\ op'.call = ConfiguredState(f.push)
                /\ f.pc = 2 => /\ Resumed(f, [f EXCEPT !.pc = 3])
                               /\ op'.call = "None"
                /\ f.pc = 3 => \/ Ended(f) /\ op'.call = NoCall
                               \/ PulseBegins
      ]_vars

\* C24: the third call of a close pulse has been issued, after the neutral
\* option and the target state of its push.
C24_Witness ==
    /\ op.name = "task" /\ op.call = "None"
    /\ Frame("move", "close_cover", 3, ClosePulse) \in InFlight


\* The number of pulses begun and not complete: coroutines suspended on the
\* first or the second call of a pulse.
OpenPulses ==
    BagCardinality([f \in {g \in InFlight : g.pc \in {1, 2}} |->
                       CopiesIn(f, tasks)])

\* C25: the calls seen by the actuator are a concatenation of complete
\* neutral, state, neutral triples: at no time are two pulses begun and not
\* complete, be they an auto-stop pulse and a user command's or two user
\* commands'.
C25_PulsesNotInterleaved == OpenPulses <= 1


\* Estimator c travels and has not reached where its travel ends.
Underway(c, time_up, time_down) ==
    is_traveling(c) /\ ~calc_position_reached(c, time_up, time_down)

\* C26: in every reachable state, if the travel estimator or the tilt
\* estimator travels and has not reached its target, the tick-loop
\* subscription is active.
C26_ArmedWhileUnderway ==
    \/ Underway(travel_calc, travel_time_up, travel_time_down)
    \/ has_tilt_support /\ Underway(tilt_calc, tilt_time_up, tilt_time_down)
    => unsubscribe_auto_updater /\ subscriptions > 0


\* C26: the tick callback has run while the cover is closing, half way: the
\* loop stays armed.
C26_Witness ==
    /\ op.name = "auto_updater_hook"
    /\ Underway(travel_calc, travel_time_up, travel_time_down)
    /\ travel_position(travel_calc) = 50
    /\ unsubscribe_auto_updater /\ subscriptions = 1


\* C27: in no reachable state does the controller report both opening and
\* closing, also when the travel and the tilt estimator travel at once.
C27_NotOpeningAndClosing ==
    ~(is_opening(travel_calc, tilt_calc) /\ is_closing(travel_calc, tilt_calc))


\* C28: with a tilt estimator configured, in every state of the activated
\* controller the reported tilt position is 100 minus the tilt estimator's
\* current position, the two extremes included, and is never absent.
C28_TiltPositionReported ==
    phase = "active" /\ has_tilt_support =>
        /\ current_cover_tilt_position(tilt_calc) # Absent
        /\ current_cover_tilt_position(tilt_calc)
               = 100 - tilt_position(tilt_calc)


\* C29: handling an external on- or off-event changes only the estimators and
\* the tick loop: in every branch (start closing, start opening, stop,
\* ignore) no call is issued on the actuator, no coroutine is started, and
\* the last toggle direction is as it was.
C29_EventFrame ==
    [][op'.name \in {"on_switch_on", "on_switch_off", "on_switch_on_off"} =>
          /\ op'.call = NoCall
          /\ tasks' = tasks
          /\ cover_is_last_toggle_direction_open' =
                 cover_is_last_toggle_direction_open
      ]_vars

=============================================================================
